---------------------------- MODULE Spec2Model ----------------------------
(***************************************************************************)
(* Reservation engine of the La Jardinerie website.                        *)
(*                                                                         *)
(*  - the PostgreSQL schema and functions (book_reservation,               *)
(*    get_capacity_taken, is_date_closed, generate_reservation_code),      *)
(*    which sit after the Tailwind configuration in                        *)
(*    src/tailwind.config.mjs;                                             *)
(*  - the GET /availability edge function                                  *)
(*    (src/supabase/functions/availability/index.ts);                      *)
(*  - the POST /book edge function (src/unnamed/part_000), which validates *)
(*    the request, calls book_reservation and sends the confirmation       *)
(*    email;                                                               *)
(*  - the canvas animation of the home page, mountParticles                *)
(*    (src/src/components/Particles3D.client.ts).                          *)
(*                                                                         *)
(* Time is counted in minutes from 00:00 of day 0; day 0 is a Sunday, so   *)
(* the day of week of day d is d % 7.  The database session and the edge   *)
(* runtime both run in UTC, so a timestamp's date and time of day are its  *)
(* quotient and remainder by MinutesPerDay.                                *)
(*                                                                         *)
(* Each process of Procs is one database session that executes one         *)
(* book_reservation call in its own READ COMMITTED transaction: its INSERT *)
(* becomes visible to the other sessions when the transaction commits, and *)
(* its advisory lock (pg_advisory_xact_lock) is released at that moment.   *)
(* Request p of POST /book uses session p.                                 *)
(***************************************************************************)
EXTENDS Integers, Sequences, FiniteSets, TLC

(* ------------------------------ bounds --------------------------------- *)

\* number of concurrent database sessions calling book_reservation
NumProcs == 2
\* number of calendar days the requests range over (days 0 .. NumDays-1)
NumDays == 2
\* number of distinct outcomes of random() that generate_reservation_code sees
NumDraws == 2
\* number of values the lock key hash ranges over (hashtext has 2^32)
HashRange == 3
\* number of fields of a POST /book body that may be missing or malformed
MaxOddities == 2

\* number of requestAnimationFrame calls a behaviour makes at most
MaxHandle == 4

(* -------------------------- program constants -------------------------- *)

MinutesPerDay == 24 * 60
\* FOR i IN 1..6 LOOP
CodeLength == 6
\* guests INTEGER NOT NULL CHECK (guests > 0 AND guests <= 20)
MaxGuests == 20
\* now.setHours(now.getHours() + 1)
AdvanceNoticeHours == 1
\* maxDate.setDate(maxDate.getDate() + 30)
HorizonDays == 30

Procs == 1 .. NumProcs
Days == 0 .. (NumDays - 1)
Services == {"midi", "soir"}

\* hh:mm as minutes since midnight
HM(h, m) == h * 60 + m
\* the instant hh:mm of day d
At(d, h, m) == d * MinutesPerDay + HM(h, m)

\* p_start_at::DATE
DateOf(t) == t \div MinutesPerDay
\* p_start_at::TIME
TimeOf(t) == t % MinutesPerDay
\* EXTRACT(DOW FROM p_start_at), date.getDay()
DowOf(d) == d % 7

Max(a, b) == IF a >= b THEN a ELSE b
Min(a, b) == IF a <= b THEN a ELSE b

(* ------------------------------ schedules ------------------------------ *)

\* one row of service_windows
Window(n, dn, d, st, lt, cap, si, md, act) ==
    [name |-> n, display_name |-> dn, dow |-> d, start_time |-> st,
     last_reservation_time |-> lt, capacity |-> cap, slot_interval |-> si,
     meal_duration |-> md, is_active |-> act]

\* The seed rows' shape (lunch 12:00-13:30, dinner 19:00-21:30, slots of 30,
\* meals of 60) on two weekdays, with a small capacity and one inactive row.
EveningSchedule ==
    { Window("midi", "Dejeuner", 0, HM(12, 0), HM(13, 30), 4, 30, 60, TRUE),
      Window("soir", "Diner",    0, HM(19, 0), HM(21, 30), 4, 30, 60, TRUE),
      Window("midi", "Dejeuner", 1, HM(12, 0), HM(13, 30), 4, 30, 60, FALSE),
      Window("soir", "Diner",    1, HM(19, 0), HM(21, 30), 4, 30, 60, TRUE) }

\* A schedule the schema allows as well: dinner is taken until 23:30 with
\* meals of 60 minutes, and the next day's dinner window opens at 00:00.
LateSchedule ==
    { Window("midi", "Dejeuner", 0, HM(12, 0), HM(13, 30), 4, 30, 60, TRUE),
      Window("soir", "Diner",    0, HM(19, 0), HM(23, 30), 4, 30, 60, TRUE),
      Window("soir", "Diner",    1, HM(0, 0),  HM(1, 0),   4, 30, 60, TRUE) }

Schedules == {EveningSchedule, LateSchedule}

(* ------------------------------- inputs -------------------------------- *)

\* p_start_at of the book_reservation calls
StartChoices == {At(0, 12, 0), At(0, 19, 0), At(0, 23, 30), At(1, 0, 0)}
\* p_guests of the book_reservation calls
GuestChoices == {2, 3}
\* the clock when the availability handler runs
NowChoices == {At(0, 10, 0), At(0, 18, 15)}
\* the date parameter of GET /availability: from yesterday (-1) to the day
\* after the last day that calls are made for
QueryDates == (0 - 1) .. NumDays
\* the guests parameter of GET /availability
QueryGuests == {0, 2}

(* -------------------------------- state -------------------------------- *)

VARIABLES
    service_windows,  \* table service_windows
    closures,         \* table closures: the set of closed dates
    reservations,     \* table reservations: the committed rows
    now,              \* the clock of the edge runtime
    pc,               \* pc[p]: where session p is in book_reservation
    args,             \* args[p]: p_service_name, p_start_at, p_guests
    v_taken,          \* v_taken[p]
    v_code,           \* v_code[p]
    held,             \* held[p]: the advisory lock key p holds, or NoLock
    result,           \* result[p]: what the RPC returned to its caller
    availResp,        \* the last response of GET /availability
    readRows,         \* the rows of reservations when that response was made
    failedReads,      \* the store reads that failed in the request of that response
    hpc,              \* hpc[p]: where the POST /book handler of request p is
    body,             \* body[p]: the JSON body of request p
    mail,             \* mail[p]: the confirmation email of request p
    response,         \* response[p]: what POST /book answered to request p
    mount,            \* mountParticles: "no", "yes", "inert" (it returned at once), "cleaned"
    documentHidden,   \* document.hidden
    rect,             \* canvas.getBoundingClientRect().width
    canvasWidth,      \* canvas.width
    isRunning,        \* let isRunning
    animationId,      \* let animationId
    callbacks,        \* the handles of the animation frame callbacks that are pending
    handle,           \* the last handle requestAnimationFrame returned
    listeners,        \* the events the component listens to
    drawn,            \* how many times animate has drawn the particles
    advances,         \* how many times it has drawn them in the last frame
    afterCleanup      \* what has happened since the cleanup function was called

vars == <<service_windows, closures, reservations, now, pc, args, v_taken,
          v_code, held, result, availResp, readRows, failedReads, hpc, body, mail,
          response, mount, documentHidden, rect, canvasWidth, isRunning,
          animationId, callbacks, handle, listeners, drawn, advances,
          afterCleanup>>

\* the state of the POST /book handlers
handlerVars == <<hpc, body, mail, response>>

\* the state of the reservation engine
engineVars == <<service_windows, closures, reservations, now, pc, args, v_taken,
               v_code, held, result, availResp, readRows, failedReads, hpc,
               body, mail, response>>

\* the state of the canvas animation
particleVars == <<mount, documentHidden, rect, canvasWidth, isRunning,
                  animationId, callbacks, handle, listeners, drawn, advances,
                  afterCleanup>>

NoLock == 0 - 1
NoCode == <<>>
NoArgs == [service_name |-> "", start_at |-> 0, guests |-> 0]
NoResult == [kind |-> "none", ok |-> FALSE, code |-> NoCode,
             reservation_id |-> 0, error |-> ""]
NoRequest == [date |-> 0, guests |-> 0]
NoResponse == [status |-> 0, req |-> NoRequest, error |-> "", services |-> <<>>,
               message |-> ""]

(* --------------------------- SQL functions ----------------------------- *)

\* chars TEXT := 'ABCDEFGHJKLMNPQRSTUVWXYZ23456789'
chars == <<"A", "B", "C", "D", "E", "F", "G", "H", "J", "K", "L", "M", "N",
           "P", "Q", "R", "S", "T", "U", "V", "W", "X", "Y", "Z", "2", "3",
           "4", "5", "6", "7", "8", "9">>

\* generate_reservation_code(): CodeLength characters substr(chars, k, 1),
\* with k = floor(random() * length(chars) + 1).  The model lets random()
\* take NumDraws values per call and repeats the draw for each position.
generate_reservation_code == { [i \in 1 .. CodeLength |-> chars[k]] : k \in 1 .. NumDraws }

\* variant: the closure of the following date is looked up
is_date_closedNextDay(check_date) == (check_date + 1) \in closures
\* is_date_closed(check_date)
is_date_closed(check_date) == check_date \in closures

\* the half-open overlap test in the WHERE clause of get_capacity_taken
RowOverlaps(r, p_start_at, p_end_at) ==
    r.start_at < p_end_at /\ r.end_at > p_start_at

\* SUM(guests) over a set of rows
RECURSIVE SumGuests(_)
SumGuests(rows) ==
    IF rows = {} THEN 0
    ELSE LET r == CHOOSE x \in rows : TRUE
         IN  r.guests + SumGuests(rows \ {r})

\* get_capacity_taken(p_service_name, p_start_at, p_end_at)
get_capacity_taken(p_service_name, p_start_at, p_end_at) ==
    SumGuests({ r \in reservations :
                  /\ r.service_name = p_service_name
                  /\ r.status = "confirmed"
                  /\ RowOverlaps(r, p_start_at, p_end_at) })

\* SELECT * INTO v_service_window FROM service_windows
\*  WHERE name = p_service_name AND dow = v_dow AND is_active = TRUE
\* (UNIQUE(name, dow): at most one row)
ServiceWindowRows(p_service_name, v_dow) ==
    { w \in service_windows :
        w.name = p_service_name /\ w.dow = v_dow /\ w.is_active }

\* v_date::TEXT || p_service_name, as a number: the date is ten characters
\* wide, so the concatenation is one-to-one on (date, service name)
ServiceIndex(s) == IF s = "midi" THEN 0 ELSE 1
LockText(v_date, p_service_name) ==
    v_date * Cardinality(Services) + ServiceIndex(p_service_name)

\* hashtext(text): a hash of fixed width
hashtext(t) == t % HashRange

\* v_lock_key := hashtext(v_date::TEXT || p_service_name)
LockKey(a) == hashtext(LockText(DateOf(a.start_at), a.service_name))

\* the (date, service_name) a call is for
BookingKey(a) == <<DateOf(a.start_at), a.service_name>>

\* pg_advisory_xact_lock(v_lock_key) returns once no other session holds
\* the key
\* variants: a lock that never makes a session wait, and one lock for all keys
LockFreeAlways(p, k) == TRUE
LockFreeOnlyIfNoLockHeld(p, k) == \A q \in Procs \ {p} : held[q] = NoLock
LockFree(p, k) == \A q \in Procs \ {p} : held[q] # k

\* RETURN QUERY SELECT ok, code, reservation_id, error
Row(ok, code, id, err) ==
    [kind |-> "row", ok |-> ok, code |-> code, reservation_id |-> id,
     error |-> err]
\* the statement failed: the transaction is rolled back and the RPC reports
\* a database error
Raised(err) ==
    [kind |-> "error", ok |-> FALSE, code |-> NoCode, reservation_id |-> 0,
     error |-> err]

\* variant: the meal ends one slot_interval after it starts
EndAtNextSlot(p_start_at, w) == p_start_at + w.slot_interval
\* v_end_at := p_start_at + (meal_duration || ' minutes')::INTERVAL
EndAt(p_start_at, w) == p_start_at + w.meal_duration

\* the window a call matched (defined once the call is past its checks)
MatchedWindow(a) ==
    CHOOSE w \in ServiceWindowRows(a.service_name, DowOf(DateOf(a.start_at))) : TRUE

\* the row book_reservation inserts
NewRow(p) ==
    [id |-> p, code |-> v_code[p], service_name |-> args[p].service_name,
     start_at |-> args[p].start_at,
     end_at |-> EndAt(args[p].start_at, MatchedWindow(args[p])),
     guests |-> args[p].guests, status |-> "confirmed"]

(* --------------------------- book_reservation -------------------------- *)

\* variant: the two ends of the window are refused
CallWindowExclusive(p, s, t, g) ==
    /\ pc[p] = "idle"
    /\ args' = [args EXCEPT ![p] = [service_name |-> s, start_at |-> t, guests |-> g]]
    /\ LET rows == ServiceWindowRows(s, DowOf(DateOf(t)))
           reject(err) ==
               /\ pc' = [pc EXCEPT ![p] = "done"]
               /\ result' = [result EXCEPT ![p] = Row(FALSE, NoCode, 0, err)]
       IN  IF is_date_closed(DateOf(t))
             THEN reject("Restaurant ferme cette date")
           ELSE IF rows = {}
             THEN reject("Service non disponible ce jour")
           ELSE IF \E w \in rows :
                     TimeOf(t) <= w.start_time \/ TimeOf(t) >= w.last_reservation_time
             THEN reject("Creneau non disponible")
           ELSE /\ pc' = [pc EXCEPT ![p] = "lock"]
                /\ UNCHANGED result
    /\ UNCHANGED <<service_windows, closures, reservations, now, v_taken,
                   v_code, held, availResp, readRows,
                   failedReads, handlerVars, particleVars>>

\* variant: the time of day is not checked against the window
CallNoTimeCheck(p, s, t, g) ==
    /\ pc[p] = "idle"
    /\ args' = [args EXCEPT ![p] = [service_name |-> s, start_at |-> t, guests |-> g]]
    /\ LET v_date == DateOf(t)
           v_dow  == DowOf(v_date)
           rows   == ServiceWindowRows(s, v_dow)
           reject(err) ==
               /\ pc' = [pc EXCEPT ![p] = "done"]
               /\ result' = [result EXCEPT ![p] = Row(FALSE, NoCode, 0, err)]
       IN  IF is_date_closed(v_date)
             THEN reject("Restaurant ferme cette date")
           ELSE IF rows = {}
             THEN reject("Service non disponible ce jour")
           ELSE /\ pc' = [pc EXCEPT ![p] = "lock"]
                /\ UNCHANGED result
    /\ UNCHANGED <<service_windows, closures, reservations, now, v_taken,
                   v_code, held, availResp, readRows,
                   failedReads, handlerVars, particleVars>>

\* BEGIN .. v_end_at: the closure check, the window lookup and the time
\* check, which read tables no session writes
Call(p, s, t, g) ==
    /\ pc[p] = "idle"
    /\ args' = [args EXCEPT ![p] = [service_name |-> s, start_at |-> t, guests |-> g]]
    /\ LET v_date == DateOf(t)
           v_dow  == DowOf(v_date)
           v_time == TimeOf(t)
           rows   == ServiceWindowRows(s, v_dow)
           reject(err) ==
               /\ pc' = [pc EXCEPT ![p] = "done"]
               /\ result' = [result EXCEPT ![p] = Row(FALSE, NoCode, 0, err)]
       IN  IF is_date_closed(v_date)
             THEN reject("Restaurant ferme cette date")
           ELSE IF rows = {}
             THEN reject("Service non disponible ce jour")
           ELSE IF \E w \in rows :
                     v_time < w.start_time \/ v_time > w.last_reservation_time
             THEN reject("Creneau non disponible")
           ELSE /\ pc' = [pc EXCEPT ![p] = "lock"]
                /\ UNCHANGED result
    /\ UNCHANGED <<service_windows, closures, reservations, now, v_taken,
                   v_code, held, availResp, readRows,
                   failedReads, handlerVars, particleVars>>

\* variant: the session goes on without taking the lock
AcquireLockNotTaken(p) ==
    /\ pc[p] = "lock"
    /\ pc' = [pc EXCEPT ![p] = "check"]
    /\ UNCHANGED <<service_windows, closures, reservations, now, args,
                   v_taken, v_code, held, result, availResp, readRows,
                   failedReads, handlerVars, particleVars>>

\* PERFORM pg_advisory_xact_lock(v_lock_key)
AcquireLock(p) ==
    /\ pc[p] = "lock"
    /\ LockFree(p, LockKey(args[p]))
    /\ held' = [held EXCEPT ![p] = LockKey(args[p])]
    /\ pc' = [pc EXCEPT ![p] = "check"]
    /\ UNCHANGED <<service_windows, closures, reservations, now, args,
                   v_taken, v_code, result, availResp, readRows,
                   failedReads, handlerVars, particleVars>>

\* variant: the party itself is left out of the test
InsufficientCapacityNoGuests(taken, p_guests, v_capacity) == taken > v_capacity
\* IF v_taken + p_guests > v_capacity
InsufficientCapacity(taken, p_guests, v_capacity) == taken + p_guests > v_capacity

\* variant: a rejected call keeps its lock
CheckCapacityKeepsLock(p) ==
    /\ pc[p] = "check"
    /\ LET a == args[p]
           w == MatchedWindow(a)
           taken == get_capacity_taken(a.service_name, a.start_at, EndAt(a.start_at, w))
       IN  /\ v_taken' = [v_taken EXCEPT ![p] = taken]
           /\ IF InsufficientCapacity(taken, a.guests, w.capacity)
                THEN /\ result' = [result EXCEPT ![p] =
                            Row(FALSE, NoCode, 0, "Capacite insuffisante pour ce creneau")]
                     /\ pc' = [pc EXCEPT ![p] = "done"]
                     /\ UNCHANGED held
                ELSE /\ pc' = [pc EXCEPT ![p] = "gen"]
                     /\ UNCHANGED <<result, held>>
    /\ UNCHANGED <<service_windows, closures, reservations, now, args,
                   v_code, availResp, readRows,
                   failedReads, handlerVars, particleVars>>

\* v_taken := get_capacity_taken(..) and the capacity test; a rejected call
\* returns, which ends its transaction and releases the lock
CheckCapacity(p) ==
    /\ pc[p] = "check"
    /\ LET a == args[p]
           w == MatchedWindow(a)
           taken == get_capacity_taken(a.service_name, a.start_at, EndAt(a.start_at, w))
       IN  /\ v_taken' = [v_taken EXCEPT ![p] = taken]
           /\ IF InsufficientCapacity(taken, a.guests, w.capacity)
                THEN /\ result' = [result EXCEPT ![p] =
                            Row(FALSE, NoCode, 0, "Capacite insuffisante pour ce creneau")]
                     /\ held' = [held EXCEPT ![p] = NoLock]
                     /\ pc' = [pc EXCEPT ![p] = "done"]
                ELSE /\ pc' = [pc EXCEPT ![p] = "gen"]
                     /\ UNCHANGED <<result, held>>
    /\ UNCHANGED <<service_windows, closures, reservations, now, args,
                   v_code, availResp, readRows,
                   failedReads, handlerVars, particleVars>>

\* LOOP v_code := generate_reservation_code();
\*      EXIT WHEN NOT EXISTS (SELECT 1 FROM reservations WHERE code = v_code)
GenerateCode(p) ==
    /\ pc[p] = "gen"
    /\ \E c \in generate_reservation_code :
          /\ v_code' = [v_code EXCEPT ![p] = c]
          /\ pc' = [pc EXCEPT ![p] =
                IF \E r \in reservations : r.code = c THEN "gen" ELSE "insert"]
    /\ UNCHANGED <<service_windows, closures, reservations, now, args,
                   v_taken, held, result, availResp, readRows,
                   failedReads, handlerVars, particleVars>>

\* variant: the INSERT does not enforce UNIQUE(code)
InsertAndCommitNotUnique(p) ==
    /\ pc[p] = "insert"
    /\ reservations' = reservations \cup {NewRow(p)}
    /\ result' = [result EXCEPT ![p] = Row(TRUE, v_code[p], p, "")]
    /\ held' = [held EXCEPT ![p] = NoLock]
    /\ pc' = [pc EXCEPT ![p] = "done"]
    /\ UNCHANGED <<service_windows, closures, now, args, v_taken, v_code,
                   availResp, readRows,
                   failedReads, handlerVars, particleVars>>

\* variant: the INSERT replaces the stored reservations of the same service
InsertAndCommitReplacing(p) ==
    /\ pc[p] = "insert"
    /\ IF \E r \in reservations : r.code = v_code[p]
         THEN /\ result' = [result EXCEPT ![p] = Raised("unique_violation")]
              /\ UNCHANGED reservations
         ELSE /\ reservations' =
                    { r \in reservations : r.service_name # args[p].service_name }
                      \cup {NewRow(p)}
              /\ result' = [result EXCEPT ![p] = Row(TRUE, v_code[p], p, "")]
    /\ held' = [held EXCEPT ![p] = NoLock]
    /\ pc' = [pc EXCEPT ![p] = "done"]
    /\ UNCHANGED <<service_windows, closures, now, args, v_taken, v_code,
                   availResp, readRows,
                   failedReads, handlerVars, particleVars>>

\* INSERT INTO reservations .. RETURNING id; RETURN QUERY SELECT TRUE, ..;
\* and the commit of the transaction, which publishes the row and releases
\* the lock.  code is UNIQUE: a committed row with the same code makes the
\* INSERT fail (a row another transaction has inserted and not yet committed
\* makes the INSERT wait for that commit and then fail the same way), and the
\* failed statement rolls the transaction back.
InsertAndCommit(p) ==
    /\ pc[p] = "insert"
    /\ IF \E r \in reservations : r.code = v_code[p]
         THEN /\ result' = [result EXCEPT ![p] = Raised("unique_violation")]
              /\ UNCHANGED reservations
         ELSE /\ reservations' = reservations \cup {NewRow(p)}
              /\ result' = [result EXCEPT ![p] = Row(TRUE, v_code[p], p, "")]
    /\ held' = [held EXCEPT ![p] = NoLock]
    /\ pc' = [pc EXCEPT ![p] = "done"]
    /\ UNCHANGED <<service_windows, closures, now, args, v_taken, v_code,
                   availResp, readRows,
                   failedReads, handlerVars, particleVars>>

book_reservation(p) ==
    \/ \E s \in Services, t \in StartChoices, g \in GuestChoices : Call(p, s, t, g)
    \/ AcquireLock(p)
    \/ CheckCapacity(p)
    \/ GenerateCode(p)
    \/ InsertAndCommit(p)

(* --------------------------- GET /availability ------------------------- *)

\* variant: the closure of today's date is looked up
ClosureOfToday(dateParam) == DateOf(now) \in closures
\* .from("closures").select("id").eq("date", dateParam).single(): the row
\* of the queried date, if there is one
Closure(dateParam) == dateParam \in closures

\* .from("service_windows").eq("dow", dow).eq("is_active", true)
ActiveWindows(dow) == { w \in service_windows : w.dow = dow /\ w.is_active }

\* .order("start_time")
RECURSIVE OrderByStartTime(_)
OrderByStartTime(rows) ==
    IF rows = {} THEN <<>>
    ELSE LET w == CHOOSE x \in rows : \A y \in rows : x.start_time <= y.start_time
         IN  <<w>> \o OrderByStartTime(rows \ {w})

\* variant: the rows that sessions are about to insert are read as well
ExistingReservationsDirty(dateParam) ==
    { r \in reservations \cup { NewRow(p) : p \in { q \in Procs : pc[q] = "insert" } } :
        /\ r.start_at >= dateParam * MinutesPerDay
        /\ r.start_at <= dateParam * MinutesPerDay + (MinutesPerDay - 1)
        /\ r.status = "confirmed" }
\* .from("reservations").gte("start_at", dayStart).lte("start_at", dayEnd)
\*   .eq("status", "confirmed"), dayStart = 00:00:00 and dayEnd = 23:59:59
\* of the queried date
ExistingReservations(dateParam) ==
    { r \in reservations :
        /\ r.start_at >= dateParam * MinutesPerDay
        /\ r.start_at <= dateParam * MinutesPerDay + (MinutesPerDay - 1)
        /\ r.status = "confirmed" }

\* variant: intervals that only touch count as overlapping
SlotOverlapsClosed(res, slotStart, slotEnd) ==
    res.start_at <= slotEnd /\ res.end_at >= slotStart
\* if (resStart < slotEnd && resEnd > slotStart)
SlotOverlaps(res, slotStart, slotEnd) ==
    res.start_at < slotEnd /\ res.end_at > slotStart

\* the capacityTaken loop over existingReservations
CapacityTaken(sw, existing, slotStart, slotEnd) ==
    SumGuests({ res \in existing :
                  res.service_name = sw.name /\ SlotOverlaps(res, slotStart, slotEnd) })

\* variant: no slot is skipped
SkipPastNone(currentTime, cutoff, lastTime, sw) == currentTime
\* while (currentTime < now && currentTime <= lastTime)
\*   currentTime.setMinutes(currentTime.getMinutes() + sw.slot_interval)
RECURSIVE SkipPast(_, _, _, _)
SkipPast(currentTime, cutoff, lastTime, sw) ==
    IF currentTime < cutoff /\ currentTime <= lastTime
      THEN SkipPast(currentTime + sw.slot_interval, cutoff, lastTime, sw)
      ELSE currentTime

\* variant: the loop with the bound currentTime < lastTime
RECURSIVE SlotLoopExclusive(_, _, _, _, _)
SlotLoopExclusive(currentTime, lastTime, sw, existing, guests) ==
    IF currentTime < lastTime
      THEN LET availableCapacity ==
                   sw.capacity
                     - CapacityTaken(sw, existing, currentTime,
                                     currentTime + sw.meal_duration)
               rest == SlotLoopExclusive(currentTime + sw.slot_interval, lastTime,
                                         sw, existing, guests)
           IN  IF availableCapacity >= guests
                 THEN <<[start_at |-> currentTime,
                         available_capacity |-> availableCapacity]>> \o rest
                 ELSE rest
      ELSE <<>>

\* variant: a slot is emitted only when more seats than the party are left
RECURSIVE SlotLoopStrict(_, _, _, _, _)
SlotLoopStrict(currentTime, lastTime, sw, existing, guests) ==
    IF currentTime <= lastTime
      THEN LET availableCapacity ==
                   sw.capacity
                     - CapacityTaken(sw, existing, currentTime,
                                     currentTime + sw.meal_duration)
               rest == SlotLoopStrict(currentTime + sw.slot_interval, lastTime,
                                      sw, existing, guests)
           IN  IF availableCapacity > guests
                 THEN <<[start_at |-> currentTime,
                         available_capacity |-> availableCapacity]>> \o rest
                 ELSE rest
      ELSE <<>>

\* variant: the loop runs one interval past lastTime
RECURSIVE SlotLoopOneMore(_, _, _, _, _)
SlotLoopOneMore(currentTime, lastTime, sw, existing, guests) ==
    IF currentTime <= lastTime + sw.slot_interval
      THEN LET availableCapacity ==
                   sw.capacity
                     - CapacityTaken(sw, existing, currentTime,
                                     currentTime + sw.meal_duration)
               rest == SlotLoopOneMore(currentTime + sw.slot_interval, lastTime,
                                       sw, existing, guests)
           IN  IF availableCapacity >= guests
                 THEN <<[start_at |-> currentTime,
                         available_capacity |-> availableCapacity]>> \o rest
                 ELSE rest
      ELSE <<>>

\* while (currentTime <= lastTime) { .. slots.push(..) ..
\*   currentTime.setMinutes(currentTime.getMinutes() + sw.slot_interval) }
RECURSIVE SlotLoop(_, _, _, _, _)
SlotLoop(currentTime, lastTime, sw, existing, guests) ==
    IF currentTime <= lastTime
      THEN LET slotStart == currentTime
               slotEnd == currentTime + sw.meal_duration
               availableCapacity ==
                   sw.capacity - CapacityTaken(sw, existing, slotStart, slotEnd)
               rest == SlotLoop(currentTime + sw.slot_interval, lastTime, sw,
                                existing, guests)
           IN  IF availableCapacity >= guests
                 THEN <<[start_at |-> slotStart,
                         available_capacity |-> availableCapacity]>> \o rest
                 ELSE rest
      ELSE <<>>

\* one pass of the loop over serviceWindows: the slots of one window
ServiceSlots(sw, dateParam, guests, existing) ==
    LET date == dateParam * MinutesPerDay
        startTime == date + sw.start_time
        lastTime == date + sw.last_reservation_time
        \* dateParam === now.toISOString().split("T")[0]
        isToday == dateParam = DateOf(now)
        cutoff == now + AdvanceNoticeHours * 60
        currentTime == IF isToday THEN SkipPast(startTime, cutoff, lastTime, sw)
                       ELSE startTime
    IN  [name |-> sw.name, display_name |-> sw.display_name,
         slots |-> SlotLoop(currentTime, lastTime, sw, existing, guests)]

Response(status, dateParam, guests, err, services, message) ==
    [status |-> status, req |-> [date |-> dateParam, guests |-> guests],
     error |-> err, services |-> services, message |-> message]

\* the handler, for a request that carries both parameters and a well-formed
\* date
AvailabilityResponse(dateParam, guests) ==
    LET today == DateOf(now)
        windows == OrderByStartTime(ActiveWindows(DowOf(dateParam)))
        existing == ExistingReservations(dateParam)
    IN  IF guests < 1 \/ guests > MaxGuests
          THEN Response(400, dateParam, guests, "Invalid guests count (1-20)", <<>>, "")
        ELSE IF dateParam < today
          THEN Response(400, dateParam, guests, "Date is in the past", <<>>, "")
        ELSE IF Closure(dateParam)
          THEN Response(200, dateParam, guests, "", <<>>, "Restaurant ferme cette date")
        ELSE IF Len(windows) = 0
          THEN Response(200, dateParam, guests, "", <<>>, "Restaurant ferme ce jour")
        ELSE Response(200, dateParam, guests, "",
                      [i \in 1 .. Len(windows) |->
                          ServiceSlots(windows[i], dateParam, guests, existing)],
                      "")

Availability(dateParam, guests) ==
    /\ availResp' = AvailabilityResponse(dateParam, guests)
    /\ readRows' = reservations
    /\ failedReads' = {}
    /\ UNCHANGED <<service_windows, closures, reservations, now, pc, args,
                   v_taken, v_code, held, result, handlerVars, particleVars>>

\* The three reads of the handler, by table.  A read fails when the store
\* does not answer it or answers with an error.
Reads == {"closures", "service_windows", "reservations"}

\* the handler when the reads in failing fail: the response, and which of
\* the failing reads it has made.
\*   const { data: closure } = await ..single()     the error is not taken
\*                                                  and data is null
\*   const { data: serviceWindows, error: swError } = ..; if (swError) throw swError
\*   const { data: existingReservations, error: resError } = ..; if (resError) throw resError
\*   catch (error) -> 500 "Internal server error"
FaultyAvailability(dateParam, guests, failing) ==
    LET today == DateOf(now)
        closure == "closures" \notin failing /\ Closure(dateParam)
        windows == OrderByStartTime(ActiveWindows(DowOf(dateParam)))
        existing == ExistingReservations(dateParam)
        internalError == Response(500, dateParam, guests, "Internal server error", <<>>, "")
        answer(resp, made) == [resp |-> resp, failed |-> made \cap failing]
    IN  IF guests < 1 \/ guests > MaxGuests
          THEN answer(Response(400, dateParam, guests,
                               "Invalid guests count (1-20)", <<>>, ""), {})
        ELSE IF dateParam < today
          THEN answer(Response(400, dateParam, guests, "Date is in the past", <<>>, ""), {})
        ELSE IF closure
          THEN answer(Response(200, dateParam, guests, "", <<>>,
                               "Restaurant ferme cette date"), {"closures"})
        ELSE IF "service_windows" \in failing
          THEN answer(internalError, {"closures", "service_windows"})
        ELSE IF Len(windows) = 0
          THEN answer(Response(200, dateParam, guests, "", <<>>,
                               "Restaurant ferme ce jour"),
                      {"closures", "service_windows"})
        ELSE IF "reservations" \in failing
          THEN answer(internalError, Reads)
        ELSE answer(Response(200, dateParam, guests, "",
                             [i \in 1 .. Len(windows) |->
                                 ServiceSlots(windows[i], dateParam, guests, existing)],
                             ""),
                    Reads)

\* a request during which one read of the store fails
AvailabilityFault(dateParam, guests, read) ==
    /\ LET answer == FaultyAvailability(dateParam, guests, {read})
       IN  /\ availResp' = answer.resp
           /\ failedReads' = answer.failed
    /\ readRows' = reservations
    /\ UNCHANGED <<service_windows, closures, reservations, now, pc, args,
                   v_taken, v_code, held, result, handlerVars, particleVars>>

(* ------------------------------ POST /book ----------------------------- *)

\* Texts that the handler looks into (phone, email, name) are sequences of
\* characters.  start_at is a text too: absent or empty, a text that
\* new Date() cannot parse, or the ISO form of an instant.
NoText == <<>>
NoStart == [given |-> FALSE, valid |-> FALSE, instant |-> 0]
Garbage == [given |-> TRUE, valid |-> FALSE, instant |-> 0]
Iso(t) == [given |-> TRUE, valid |-> TRUE, instant |-> t]

Ana == <<"A", "n", "a">>
\* "06 12 34 56 78" and "06.12.34"
PhoneSpaced == <<"0", "6", " ", "1", "2", " ", "3", "4", " ", "5", "6", " ", "7", "8">>
PhoneShort == <<"0", "6", ".", "1", "2", ".", "3", "4">>
\* "a@b.fr" and "a@b"
EmailFull == <<"a", "@", "b", ".", "f", "r">>
EmailNoDot == <<"a", "@", "b">>

\* \s
WhiteSpace == {" ", "\t", "\n", "\r"}
NotSeparator(c) == c \notin WhiteSpace \cup {"-", "."}
\* phone.replace(/[\s\-\.]/g, "")
PhoneClean(phone) == SelectSeq(phone, NotSeparator)
\* /^[^\s@]+@[^\s@]+\.[^\s@]+$/.test(email)
EmailMatches(email) ==
    \E i, j \in 1 .. Len(email) :
        /\ 1 < i /\ i + 1 < j /\ j < Len(email)
        /\ email[i] = "@" /\ email[j] = "."
        /\ \A k \in (1 .. Len(email)) \ {i} : email[k] \notin WhiteSpace \cup {"@"}

\* a request body; json tells whether req.json() could parse it
Body(start_at, service_name, guests, name, phone, email) ==
    [json |-> TRUE, start_at |-> start_at, service_name |-> service_name,
     guests |-> guests, name |-> name, phone |-> phone, email |-> email]
NoBody == [json |-> FALSE, start_at |-> NoStart, service_name |-> "",
           guests |-> 0, name |-> NoText, phone |-> NoText, email |-> NoText]

\* a body that passes every check of the handler.  Among the values below,
\* 09:00 of day 0 is before every clock value and 19:00 of day 30 is more
\* than 30 days after every clock value.
BaseBody == Body(Iso(At(0, 19, 0)), "soir", 3, Ana, PhoneSpaced, EmailFull)

\* the bodies that are in order: each service at 12:00 and 19:00 of day 0
\* and at 00:00 of day 1, with and without an email address
GoodBodies ==
    { Body(Iso(t), sn, 3, Ana, PhoneSpaced, em) :
        t \in {At(0, 12, 0), At(0, 19, 0), At(1, 0, 0)}, sn \in Services,
        em \in {NoText, EmailFull} }

\* the fields in which body b departs from BaseBody
Oddities(b) ==
    { f \in {"start_at", "service_name", "guests", "name", "phone", "email"} :
        b[f] # BaseBody[f] }

\* BaseBody with up to MaxOddities fields replaced by a value that is
\* missing, malformed or out of range
OddBodies ==
    { b \in { Body(st, sn, g, n, ph, em) :
                st \in {BaseBody.start_at, NoStart, Garbage, Iso(At(0, 9, 0)),
                        Iso(At(HorizonDays, 10, 0)), Iso(At(HorizonDays, 19, 0))},
                sn \in {BaseBody.service_name, "", "brunch"},
                g \in {BaseBody.guests, 0, 25},
                n \in {BaseBody.name, NoText},
                ph \in {BaseBody.phone, NoText, PhoneShort},
                em \in {BaseBody.email, EmailNoDot} } :
        Cardinality(Oddities(b)) \in 1 .. MaxOddities }

\* the bodies of the requests, and a text that is not JSON
Bodies == {NoBody} \cup GoodBodies \cup OddBodies

\* new Response(JSON.stringify({ ok, code, reservation_id, error }), { status })
Reply(status, ok, code, id, err) ==
    [status |-> status, ok |-> ok, code |-> code, reservation_id |-> id,
     error |-> err]
NoReply == Reply(0, FALSE, NoCode, 0, "")
Refused(status, err) == Reply(status, FALSE, NoCode, 0, err)

\* variant: a start_at exactly HorizonDays ahead is refused as well
ValidationErrorHorizonInclusive(b) ==
    IF b.start_at = NoStart \/ b.service_name = "" \/ b.guests = 0
         \/ b.name = NoText \/ b.phone = NoText
      THEN "Champs requis manquants"
    ELSE IF b.service_name \notin {"midi", "soir"}
      THEN "Service invalide"
    ELSE IF b.guests < 1 \/ b.guests > MaxGuests
      THEN "Nombre de couverts invalide (1-20)"
    ELSE IF ~b.start_at.valid
      THEN "Date invalide"
    ELSE IF b.start_at.instant < now
      THEN "Impossible de reserver dans le passe"
    ELSE IF b.start_at.instant >= now + HorizonDays * MinutesPerDay
      THEN "Reservation limitee a 30 jours a l'avance"
    ELSE IF Len(PhoneClean(b.phone)) < 10
      THEN "Numero de telephone invalide"
    ELSE IF b.email # NoText /\ ~EmailMatches(b.email)
      THEN "Email invalide"
    ELSE ""

\* the checks of the handler before it calls the database, in the order of
\* the code: the reason of the first check that fails, "" when all pass
ValidationError(b) ==
    IF b.start_at = NoStart \/ b.service_name = "" \/ b.guests = 0
         \/ b.name = NoText \/ b.phone = NoText
      THEN "Champs requis manquants"
    ELSE IF b.service_name \notin {"midi", "soir"}
      THEN "Service invalide"
    ELSE IF b.guests < 1 \/ b.guests > MaxGuests
      THEN "Nombre de couverts invalide (1-20)"
    ELSE IF ~b.start_at.valid
      THEN "Date invalide"
    ELSE IF b.start_at.instant < now
      THEN "Impossible de reserver dans le passe"
    ELSE IF b.start_at.instant > now + HorizonDays * MinutesPerDay
      THEN "Reservation limitee a 30 jours a l'avance"
    ELSE IF Len(PhoneClean(b.phone)) < 10
      THEN "Numero de telephone invalide"
    ELSE IF b.email # NoText /\ ~EmailMatches(b.email)
      THEN "Email invalide"
    ELSE ""

\* the frame of the handler's own steps
dbVars == <<service_windows, closures, reservations, now, pc, args, v_taken,
            v_code, held, result, availResp, readRows, failedReads,
            particleVars>>

\* variant: a failed check is answered but the handler does not return
PostNoReturn(p, b) ==
    /\ hpc[p] = "idle" /\ pc[p] = "idle"
    /\ body' = [body EXCEPT ![p] = b]
    /\ IF ~b.json
         THEN /\ response' = [response EXCEPT ![p] = Refused(500, "Erreur serveur")]
              /\ hpc' = [hpc EXCEPT ![p] = "done"]
         ELSE /\ hpc' = [hpc EXCEPT ![p] = "rpc"]
              /\ response' = [response EXCEPT ![p] =
                    IF ValidationError(b) # "" THEN Refused(400, ValidationError(b))
                    ELSE response[p]]
    /\ UNCHANGED <<mail, dbVars>>

\* req.json() and the checks up to the creation of the database client
Post(p, b) ==
    /\ hpc[p] = "idle" /\ pc[p] = "idle"
    /\ body' = [body EXCEPT ![p] = b]
    /\ IF ~b.json
         THEN \* req.json() throws: catch (error)
              /\ response' = [response EXCEPT ![p] = Refused(500, "Erreur serveur")]
              /\ hpc' = [hpc EXCEPT ![p] = "done"]
         ELSE IF ValidationError(b) # ""
           THEN /\ response' = [response EXCEPT ![p] = Refused(400, ValidationError(b))]
                /\ hpc' = [hpc EXCEPT ![p] = "done"]
           ELSE /\ hpc' = [hpc EXCEPT ![p] = "rpc"]
                /\ UNCHANGED response
    /\ UNCHANGED <<mail, dbVars>>

\* supabase.rpc("book_reservation", { p_service_name, p_start_at, p_guests, .. })
Rpc(p) ==
    /\ hpc[p] = "rpc"
    /\ Call(p, body[p].service_name, body[p].start_at.instant, body[p].guests)

\* the store cannot be reached: supabase.rpc resolves with an error and
\* book_reservation has not run
RpcUnreachable(p) ==
    /\ hpc[p] = "rpc" /\ pc[p] = "idle"
    /\ result' = [result EXCEPT ![p] = Raised("store_unreachable")]
    /\ pc' = [pc EXCEPT ![p] = "done"]
    /\ UNCHANGED <<service_windows, closures, reservations, now, args, v_taken,
                   v_code, held, availResp, readRows, failedReads, handlerVars,
                   particleVars>>

\* the wait for the advisory lock is given up by the database (lock or
\* statement timeout): the statement raises, the transaction is rolled back
\* and supabase.rpc resolves with the error
LockFailure(p) ==
    /\ hpc[p] = "rpc" /\ pc[p] = "lock"
    /\ ~LockFree(p, LockKey(args[p]))
    /\ result' = [result EXCEPT ![p] = Raised("lock_not_available")]
    /\ pc' = [pc EXCEPT ![p] = "done"]
    /\ UNCHANGED <<service_windows, closures, reservations, now, args, v_taken,
                   v_code, held, availResp, readRows, failedReads, handlerVars,
                   particleVars>>

\* the answer with ok: true
Success(res) == Reply(200, TRUE, res.code, res.reservation_id, "")

\* the outcomes of the fetch to the mail service: a response that is ok, a
\* response that is not (sendConfirmationEmail throws), a rejected fetch
MailOutcomes == {"delivered", "refused", "failed"}

\* variant: the email is sent before the result of the RPC is looked at
RpcReturnMailFirst(p) ==
    /\ hpc[p] = "rpc" /\ pc[p] = "done"
    /\ IF body[p].email # NoText
         THEN /\ hpc' = [hpc EXCEPT ![p] = "mail"]
              /\ mail' = [mail EXCEPT ![p] = "pending"]
              /\ UNCHANGED response
         ELSE /\ response' = [response EXCEPT ![p] =
                    IF result[p].kind = "error"
                      THEN Refused(500, "Erreur lors de la reservation")
                    ELSE IF ~result[p].ok THEN Refused(400, result[p].error)
                    ELSE Success(result[p])]
              /\ hpc' = [hpc EXCEPT ![p] = "done"]
              /\ UNCHANGED mail
    /\ UNCHANGED <<body, dbVars>>

\* variant: the answer carries the error of the database
RpcReturnErrorDetail(p) ==
    /\ hpc[p] = "rpc" /\ pc[p] = "done"
    /\ IF result[p].kind = "error"
         THEN /\ response' = [response EXCEPT ![p] = Refused(500, result[p].error)]
              /\ hpc' = [hpc EXCEPT ![p] = "done"]
              /\ UNCHANGED mail
       ELSE IF ~result[p].ok
         THEN /\ response' = [response EXCEPT ![p] =
                    Refused(400, IF result[p].error # "" THEN result[p].error
                                 ELSE "Reservation impossible")]
              /\ hpc' = [hpc EXCEPT ![p] = "done"]
              /\ UNCHANGED mail
       ELSE \E resendApiKey \in BOOLEAN :
              IF body[p].email # NoText /\ resendApiKey
                THEN /\ hpc' = [hpc EXCEPT ![p] = "mail"]
                     /\ mail' = [mail EXCEPT ![p] = "pending"]
                     /\ UNCHANGED response
                ELSE /\ response' = [response EXCEPT ![p] = Success(result[p])]
                     /\ hpc' = [hpc EXCEPT ![p] = "done"]
                     /\ UNCHANGED mail
    /\ UNCHANGED <<body, dbVars>>

\* the RPC has returned: if (error) .., if (!result || !result.ok) ..,
\* if (email && resendApiKey) sendConfirmationEmail(..) up to its fetch,
\* and the success response when no email is sent
RpcReturn(p) ==
    /\ hpc[p] = "rpc" /\ pc[p] = "done"
    /\ IF result[p].kind = "error"
         THEN /\ response' = [response EXCEPT ![p] =
                    Refused(500, "Erreur lors de la reservation")]
              /\ hpc' = [hpc EXCEPT ![p] = "done"]
              /\ UNCHANGED mail
       ELSE IF ~result[p].ok
         THEN /\ response' = [response EXCEPT ![p] =
                    Refused(400, IF result[p].error # "" THEN result[p].error
                                 ELSE "Reservation impossible")]
              /\ hpc' = [hpc EXCEPT ![p] = "done"]
              /\ UNCHANGED mail
       ELSE \E resendApiKey \in BOOLEAN :
              IF body[p].email # NoText /\ resendApiKey
                THEN /\ hpc' = [hpc EXCEPT ![p] = "mail"]
                     /\ mail' = [mail EXCEPT ![p] = "pending"]
                     /\ UNCHANGED response
                ELSE /\ response' = [response EXCEPT ![p] = Success(result[p])]
                     /\ hpc' = [hpc EXCEPT ![p] = "done"]
                     /\ UNCHANGED mail
    /\ UNCHANGED <<body, dbVars>>

\* variant: an email that could not be sent fails the request
EmailSettledRethrown(p, outcome) ==
    /\ hpc[p] = "mail"
    /\ mail' = [mail EXCEPT ![p] = outcome]
    /\ response' = [response EXCEPT ![p] =
          IF outcome = "delivered" THEN Success(result[p])
          ELSE Refused(500, "Erreur serveur")]
    /\ hpc' = [hpc EXCEPT ![p] = "done"]
    /\ UNCHANGED <<body, dbVars>>

\* the fetch of sendConfirmationEmail settles: if (!response.ok) throw ..,
\* catch (emailError) { console.error(..) }, and the success response
EmailSettled(p, outcome) ==
    /\ hpc[p] = "mail"
    /\ mail' = [mail EXCEPT ![p] = outcome]
    /\ response' = [response EXCEPT ![p] = Success(result[p])]
    /\ hpc' = [hpc EXCEPT ![p] = "done"]
    /\ UNCHANGED <<body, dbVars>>

(* ---------------------------- mountParticles --------------------------- *)

\* The animation is reduced to what drives it: whether the loop runs, which
\* animation frame callbacks are pending and how often the particles are
\* drawn.  One call of animate moves every particle once and draws them, so
\* a count of the calls that got past the isRunning test stands for the
\* positions.  The device pixel ratio is 1.

\* the widths the element takes
RectChoices == {300, 600}

\* what animate reads and writes, in one record
AnimationState ==
    [drawn |-> drawn, handle |-> handle, callbacks |-> callbacks,
     animationId |-> animationId]

\* animate: if (!isRunning) return; .. draw ..;
\* animationId = requestAnimationFrame(animate)
Animate(running, st) ==
    IF ~running THEN st
    ELSE [drawn |-> st.drawn + 1,
          handle |-> st.handle + 1,
          callbacks |-> st.callbacks \cup {st.handle + 1},
          animationId |-> st.handle + 1]

\* n calls of animate, one after the other
RECURSIVE AnimateTimes(_, _, _)
AnimateTimes(n, running, st) ==
    IF n = 0 THEN st ELSE AnimateTimes(n - 1, running, Animate(running, st))

\* cancelAnimationFrame(id)
Cancel(list, id) == list \ {id}

\* mountParticles(canvas): with reduced motion preferred or without a 2d
\* context it returns an empty cleanup; otherwise resize(), initParticles(),
\* animate() and the two listeners
Mount(prefersReducedMotion, hasContext) ==
    /\ mount = "no"
    /\ IF prefersReducedMotion \/ ~hasContext
         THEN /\ mount' = "inert"
              /\ UNCHANGED <<canvasWidth, isRunning, animationId, callbacks,
                             handle, listeners, drawn>>
         ELSE LET st == Animate(TRUE, AnimationState)
              IN  /\ mount' = "yes"
                  /\ canvasWidth' = rect
                  /\ isRunning' = TRUE
                  /\ drawn' = st.drawn
                  /\ handle' = st.handle
                  /\ callbacks' = st.callbacks
                  /\ animationId' = st.animationId
                  /\ listeners' = {"resize", "visibilitychange"}
    /\ UNCHANGED <<documentHidden, rect, advances, afterCleanup>>
    /\ UNCHANGED engineVars

\* An animation frame: the browser takes the list of pending callbacks,
\* empties it and runs them in turn; a callback requested meanwhile waits
\* for the next frame.  A hidden document gets frames rarely or not at all,
\* which the model leaves open.
Frame ==
    /\ callbacks # {}
    /\ handle + Cardinality(callbacks) <= MaxHandle
    /\ LET st == AnimateTimes(Cardinality(callbacks), isRunning,
                              [AnimationState EXCEPT !.callbacks = {}])
       IN  /\ drawn' = st.drawn
           /\ handle' = st.handle
           /\ callbacks' = st.callbacks
           /\ animationId' = st.animationId
           /\ advances' = st.drawn - drawn
    /\ afterCleanup' = IF mount = "cleaned" THEN afterCleanup \cup {"callback"}
                       ELSE afterCleanup
    /\ UNCHANGED <<mount, documentHidden, rect, canvasWidth, isRunning, listeners>>
    /\ UNCHANGED engineVars

\* The document changes between visible and hidden; the event reaches
\* handleVisibility while the listener is attached:
\*   if (document.hidden) { isRunning = false; cancelAnimationFrame(animationId) }
\*   else { isRunning = true; animate() }
VisibilityChange ==
    /\ documentHidden' = ~documentHidden
    /\ IF "visibilitychange" \notin listeners
         THEN UNCHANGED <<isRunning, animationId, callbacks, handle, drawn>>
       ELSE IF documentHidden'
         THEN /\ isRunning' = FALSE
              /\ callbacks' = Cancel(callbacks, animationId)
              /\ UNCHANGED <<animationId, handle, drawn>>
         ELSE LET st == Animate(TRUE, AnimationState)
              IN  /\ handle < MaxHandle
                  /\ isRunning' = TRUE
                  /\ drawn' = st.drawn
                  /\ handle' = st.handle
                  /\ callbacks' = st.callbacks
                  /\ animationId' = st.animationId
    /\ afterCleanup' = IF mount = "cleaned"
                         THEN afterCleanup \cup {"visibilitychange"}
                         ELSE afterCleanup
    /\ UNCHANGED <<mount, rect, canvasWidth, listeners, advances>>
    /\ UNCHANGED engineVars

\* The element takes width w; the event reaches resize() while the listener
\* is attached: canvas.width = Math.floor(rect.width * dpr)
Resize(w) ==
    /\ w # rect
    /\ rect' = w
    /\ canvasWidth' = IF "resize" \in listeners THEN w ELSE canvasWidth
    /\ afterCleanup' = IF mount = "cleaned" THEN afterCleanup \cup {"resize"}
                       ELSE afterCleanup
    /\ UNCHANGED <<mount, documentHidden, isRunning, animationId, callbacks,
                   handle, listeners, drawn, advances>>
    /\ UNCHANGED engineVars

\* variant: the cleanup leaves the visibilitychange listener attached
CleanupKeepsListener ==
    /\ mount \in {"yes", "inert"}
    /\ mount' = "cleaned"
    /\ IF mount = "inert"
         THEN UNCHANGED <<isRunning, callbacks, listeners>>
         ELSE /\ isRunning' = FALSE
              /\ callbacks' = Cancel(callbacks, animationId)
              /\ listeners' = listeners \ {"resize"}
    /\ UNCHANGED <<documentHidden, rect, canvasWidth, animationId, handle,
                   drawn, advances, afterCleanup>>
    /\ UNCHANGED engineVars

\* the function mountParticles returned: () => {} of the early returns, or
\*   isRunning = false; cancelAnimationFrame(animationId);
\*   removeEventListener("resize", ..); removeEventListener("visibilitychange", ..)
Cleanup ==
    /\ mount \in {"yes", "inert"}
    /\ mount' = "cleaned"
    /\ IF mount = "inert"
         THEN UNCHANGED <<isRunning, callbacks, listeners>>
         ELSE /\ isRunning' = FALSE
              /\ callbacks' = Cancel(callbacks, animationId)
              /\ listeners' = {}
    /\ UNCHANGED <<documentHidden, rect, canvasWidth, animationId, handle,
                   drawn, advances, afterCleanup>>
    /\ UNCHANGED engineVars

(* ---------------------------- specification ---------------------------- *)

Init ==
    /\ service_windows \in Schedules
    /\ closures \in SUBSET Days
    /\ reservations = {}
    /\ now \in NowChoices
    /\ pc = [p \in Procs |-> "idle"]
    /\ args = [p \in Procs |-> NoArgs]
    /\ v_taken = [p \in Procs |-> 0]
    /\ v_code = [p \in Procs |-> NoCode]
    /\ held = [p \in Procs |-> NoLock]
    /\ result = [p \in Procs |-> NoResult]
    /\ availResp = NoResponse
    /\ readRows = {}
    /\ failedReads = {}
    /\ hpc = [p \in Procs |-> "idle"]
    /\ body = [p \in Procs |-> NoBody]
    /\ mail = [p \in Procs |-> "none"]
    /\ response = [p \in Procs |-> NoReply]
    /\ mount = "no"
    /\ documentHidden = FALSE
    /\ rect = 300
    /\ canvasWidth = 300
    /\ isRunning = TRUE
    /\ animationId = 0
    /\ callbacks = {}
    /\ handle = 0
    /\ listeners = {}
    /\ drawn = 0
    /\ advances = 0
    /\ afterCleanup = {}

Next ==
    \/ \E p \in Procs : book_reservation(p)
    \/ \E d \in QueryDates, g \in QueryGuests : Availability(d, g)

\* the sessions called directly, and the availability handler
Spec == Init /\ [][Next]_vars

\* the requests to POST /book, each with its own database session
BookNext ==
    \E p \in Procs :
        \/ \E b \in Bodies : Post(p, b)
        \/ Rpc(p)
        \/ AcquireLock(p)
        \/ CheckCapacity(p)
        \/ GenerateCode(p)
        \/ InsertAndCommit(p)
        \/ RpcReturn(p)
        \/ \E outcome \in MailOutcomes : EmailSettled(p, outcome)

BookSpec == Init /\ [][BookNext]_vars

\* The same with the scheduling the runtime and the database give: a
\* handler goes on once what it awaits has settled, and a session runs its
\* next statement once it can.  Nothing makes the mail service answer, and
\* nothing makes a client send a request.
BookFairness ==
    \A p \in Procs :
        /\ WF_vars(Rpc(p))
        /\ WF_vars(AcquireLock(p))
        /\ WF_vars(CheckCapacity(p))
        /\ WF_vars(GenerateCode(p))
        /\ WF_vars(InsertAndCommit(p))
        /\ WF_vars(RpcReturn(p))

FairBookSpec == Init /\ [][BookNext]_vars /\ BookFairness

\* the requests to POST /book over a store that may be out of reach and a
\* database that may give up a lock wait
BookFaultNext ==
    \E p \in Procs :
        \/ \E b \in Bodies : Post(p, b)
        \/ Rpc(p)
        \/ RpcUnreachable(p)
        \/ AcquireLock(p)
        \/ LockFailure(p)
        \/ CheckCapacity(p)
        \/ GenerateCode(p)
        \/ InsertAndCommit(p)
        \/ RpcReturn(p)
        \/ \E outcome \in MailOutcomes : EmailSettled(p, outcome)

BookFaultSpec == Init /\ [][BookFaultNext]_vars

\* the requests that get as far as the reads of the store: a date from
\* today on and a number of guests in range
FaultQueries ==
    { q \in [date : QueryDates, guests : QueryGuests] :
        q.date >= 0 /\ q.guests >= 1 }

\* the sessions and the availability handler over a store in which one
\* read of each request fails; a request that does not get to that read is
\* answered as without the fault
ReadFaultNext ==
    \/ \E p \in Procs : book_reservation(p)
    \/ \E q \in FaultQueries, read \in Reads :
          AvailabilityFault(q.date, q.guests, read)

ReadFaultSpec == Init /\ [][ReadFaultNext]_vars

\* The sessions alone, called by any client of the database: a client that
\* calls the function directly does not have to take start_at from an
\* availability response, so a start between two slots is among the inputs.
CommitStarts == StartChoices \cup {At(0, 19, 10)}

CommitNext ==
    \E p \in Procs :
        \/ \E s \in Services, t \in CommitStarts, g \in GuestChoices : Call(p, s, t, g)
        \/ AcquireLock(p)
        \/ CheckCapacity(p)
        \/ GenerateCode(p)
        \/ InsertAndCommit(p)

CommitSpec == Init /\ [][CommitNext]_vars

\* a pass of the code loop that draws a code no committed row has
DrawUnused(p) == GenerateCode(p) /\ pc'[p] = "insert"

\* The scheduling of the database: a session runs its next statement once
\* it can; a session that waits for an advisory lock is in the lock's wait
\* queue and gets the lock after the sessions before it; random() gives
\* every code with positive probability, so a loop that keeps drawing draws
\* an unused code while there is one.  Nothing makes a client call.
CommitFairness ==
    \A p \in Procs :
        /\ SF_vars(AcquireLock(p))
        /\ WF_vars(CheckCapacity(p))
        /\ WF_vars(DrawUnused(p))
        /\ WF_vars(InsertAndCommit(p))

FairCommitSpec == Init /\ [][CommitNext]_vars /\ CommitFairness

\* the page with the canvas: the browser's frames and events, the mount and
\* the cleanup
ParticlesNext ==
    \/ \E prefersReducedMotion, hasContext \in BOOLEAN :
          Mount(prefersReducedMotion, hasContext)
    \/ Frame
    \/ VisibilityChange
    \/ \E w \in RectChoices : Resize(w)
    \/ Cleanup

ParticlesSpec == Init /\ [][ParticlesNext]_vars

(* ------------------------------- claims -------------------------------- *)

Confirmed == { r \in reservations : r.status = "confirmed" }

\* the rows of a set that are in progress at instant t
At_(rows, t) == { r \in rows : r.start_at <= t /\ t < r.end_at }

\* The guests seated at any instant are a step function of time that rises
\* only where a reservation starts, so its maximum over all instants is
\* taken at the start of some reservation.
Instants == { r.start_at : r \in reservations }

\* the (date, service_name) a stored row was booked under
RowKey(r) == <<DateOf(r.start_at), r.service_name>>
\* the active window a stored row matched
RowWindow(r) == CHOOSE w \in ServiceWindowRows(r.service_name, DowOf(DateOf(r.start_at))) : TRUE

\* session p is between acquiring its advisory lock and the end of its
\* transaction
InCritical(p) == pc[p] \in {"check", "gen", "insert"}
\* session p has called book_reservation
Called(p) == pc[p] # "idle"
\* session p waits in pg_advisory_xact_lock
Waiting(p) == pc[p] = "lock" /\ ~LockFree(p, LockKey(args[p]))

\* C1: No overbooking per key.  Whatever the interleaving of the calls, for
\* every (date, service_name) and every instant, the guests of the confirmed
\* reservations booked under that key and in progress at that instant sum to
\* at most the capacity of the key's window.
C1_NoOverbookingPerKey ==
    \A r \in Confirmed : \A t \in Instants :
        SumGuests(At_({ x \in Confirmed : RowKey(x) = RowKey(r) }, t))
            <= RowWindow(r).capacity

\* C1 witness: two calls for the same key were both accepted and together
\* fill the window's capacity exactly.
C1_Witness ==
    \E p, q \in Procs :
        /\ p # q
        /\ result[p].ok /\ result[q].ok
        /\ BookingKey(args[p]) = BookingKey(args[q])
        /\ args[p].start_at = args[q].start_at
        /\ args[p].guests + args[q].guests = MatchedWindow(args[p]).capacity

\* the call of session p passes the closure, window and time checks
Bookable(a) ==
    /\ ~is_date_closed(DateOf(a.start_at))
    /\ \E w \in ServiceWindowRows(a.service_name, DowOf(DateOf(a.start_at))) :
          TimeOf(a.start_at) >= w.start_time
          /\ TimeOf(a.start_at) <= w.last_reservation_time

\* C2: Exactly one winner.  When a slot has 4 seats left and exactly two
\* calls, each for 3 guests and for that same service and start_at, have run
\* (in any interleaving), one returned ok = TRUE and the other returned
\* ok = FALSE with the insufficient-capacity reason.
C2_ExactlyOneWinner ==
    \A p, q \in Procs :
        ( /\ p # q
          /\ pc[p] = "done" /\ pc[q] = "done"
          /\ \A o \in Procs \ {p, q} : pc[o] = "idle"
          /\ args[p].service_name = args[q].service_name
          /\ args[p].start_at = args[q].start_at
          /\ args[p].guests = 3 /\ args[q].guests = 3
          /\ Bookable(args[p])
          /\ MatchedWindow(args[p]).capacity = 4 )
        => \E w \in {p, q} : \E l \in {p, q} \ {w} :
              /\ result[w].kind = "row" /\ result[w].ok
              /\ result[l] = Row(FALSE, NoCode, 0, "Capacite insuffisante pour ce creneau")

\* C2 witness: such a pair of calls has run to the end.
C2_Witness ==
    \E p, q \in Procs :
        /\ p # q
        /\ pc[p] = "done" /\ pc[q] = "done"
        /\ args[p] = args[q] /\ args[p].guests = 3
        /\ result[p].ok
        /\ result[q].error = "Capacite insuffisante pour ce creneau"

\* C3: Mutual exclusion per key.  Two sessions whose calls are for the same
\* (date of start_at, service_name) are never both between acquiring the
\* advisory lock and the end of their transaction, so the capacity read and
\* the INSERT of the one never fall between those of the other.
C3_MutualExclusion ==
    \A p, q \in Procs :
        (p # q /\ InCritical(p) /\ InCritical(q))
            => BookingKey(args[p]) # BookingKey(args[q])

\* C3 witness: one session is past its capacity read while another session
\* with the same key waits for the lock.
C3_Witness ==
    \E p, q \in Procs :
        /\ p # q
        /\ pc[p] \in {"gen", "insert"}
        /\ Waiting(q)
        /\ BookingKey(args[p]) = BookingKey(args[q])

\* C4 (as claimed): Global capacity invariant.  For every service and every
\* instant, the guests of all confirmed reservations of the service in
\* progress at that instant sum to at most the capacity of the window matched
\* by the reservation that starts at that instant - whatever the dates the
\* reservations were booked under.
C4_NoOverbookingGlobal ==
    \A r \in Confirmed :
        SumGuests(At_({ x \in Confirmed : x.service_name = r.service_name },
                      r.start_at))
            <= RowWindow(r).capacity

C7_ClosurePrecedenceCommit ==
    /\ \A p \in Procs :
          (Called(p) /\ DateOf(args[p].start_at) \in closures)
              => /\ pc[p] = "done"
                 /\ result[p] = Row(FALSE, NoCode, 0, "Restaurant ferme cette date")
                 /\ \A r \in reservations : r.id # p
    /\ \A r \in reservations : DateOf(r.start_at) \notin closures

\* C7 witness: a call was rejected for a closed date although an active
\* window covers its start_at and the slot is empty.
C7_Witness ==
    \E p \in Procs :
        /\ pc[p] = "done"
        /\ DateOf(args[p].start_at) \in closures
        /\ \E w \in ServiceWindowRows(args[p].service_name,
                                      DowOf(DateOf(args[p].start_at))) :
              /\ TimeOf(args[p].start_at) >= w.start_time
              /\ TimeOf(args[p].start_at) <= w.last_reservation_time
              /\ get_capacity_taken(args[p].service_name, args[p].start_at,
                                    EndAt(args[p].start_at, w)) = 0

\* the stored response is the one the handler gives in the current state
\* (nothing it read has changed since)
Fresh ==
    /\ availResp.status # 0
    /\ availResp = AvailabilityResponse(availResp.req.date, availResp.req.guests)

\* the request of the stored response meets the handler's preconditions
ValidQuery ==
    /\ availResp.req.guests >= 1 /\ availResp.req.guests <= MaxGuests
    /\ availResp.req.date >= DateOf(now)

\* the active window behind entry i of the response's services
ServiceWindowOf(i) ==
    CHOOSE w \in ActiveWindows(DowOf(availResp.req.date)) :
        w.name = availResp.services[i].name

\* the slots of entry i, as a set
SlotsOf(i) ==
    { availResp.services[i].slots[j] : j \in 1 .. Len(availResp.services[i].slots) }

\* [a, b) and [s, e) have an instant in common
ShareAnInstant(a, b, s, e) == Max(a, s) < Min(b, e)

\* C6: Closure precedence on read.  For a date that has a closure row, a
\* request that meets the handler's preconditions is answered with an empty
\* services list and the closed message, whatever windows are active on that
\* weekday and whatever reservations are stored.
C6_ClosurePrecedenceRead ==
    (Fresh /\ ValidQuery /\ availResp.req.date \in closures)
        => /\ availResp.status = 200
           /\ availResp.services = <<>>
           /\ availResp.message = "Restaurant ferme cette date"

\* C6 witness: the closed answer was given for a date whose weekday has an
\* active window, while reservations are stored.
C6_Witness ==
    /\ Fresh /\ ValidQuery
    /\ availResp.req.date \in closures
    /\ availResp.message = "Restaurant ferme cette date"
    /\ ActiveWindows(DowOf(availResp.req.date)) # {}
    /\ reservations # {}

\* C8 (as claimed): Reported capacity.  For every slot the handler emits,
\* available_capacity is the window's capacity minus the guests of ALL
\* confirmed reservations of the service that overlap the slot's
\* [s, s + meal_duration), on whatever day they start.
C8_ReportedCapacityCountsAll ==
    (Fresh /\ availResp.status = 200)
        => \A i \in 1 .. Len(availResp.services) : \A slot \in SlotsOf(i) :
              LET w == ServiceWindowOf(i)
              IN  slot.available_capacity =
                      w.capacity
                        - SumGuests({ r \in Confirmed :
                              /\ r.service_name = w.name
                              /\ ShareAnInstant(r.start_at, r.end_at, slot.start_at,
                                                slot.start_at + w.meal_duration) })

\* C9: Overlap is half-open.  A reservation [a, b) counts against a slot
\* [s, e) exactly when the two have an instant in common (a < e and b > s):
\* in the availability computation, over the reservations it fetched for the
\* queried date, and in get_capacity_taken, over the confirmed reservations
\* of the service.  Slots are taken 60 and 30 minutes before and after every
\* stored reservation's start, and at it.
C9_HalfOpenOverlap ==
    /\ (Fresh /\ availResp.status = 200)
          => \A i \in 1 .. Len(availResp.services) : \A slot \in SlotsOf(i) :
                LET w == ServiceWindowOf(i)
                IN  slot.available_capacity =
                        w.capacity
                          - SumGuests({ r \in Confirmed :
                                /\ DateOf(r.start_at) = availResp.req.date
                                /\ r.service_name = w.name
                                /\ ShareAnInstant(r.start_at, r.end_at, slot.start_at,
                                                  slot.start_at + w.meal_duration) })
    /\ \A r \in reservations : \A k \in {0 - 60, 0 - 30, 0, 30, 60} : \A svc \in Services :
          LET s == r.start_at + k
              e == s + (r.end_at - r.start_at)
          IN  get_capacity_taken(svc, s, e) =
                  SumGuests({ x \in Confirmed :
                                /\ x.service_name = svc
                                /\ ShareAnInstant(x.start_at, x.end_at, s, e) })

\* C9 witness: one dinner reservation of 60 minutes starts at 19:00; the
\* fresh answer for its date counts it against the 19:30 slot and not
\* against the 20:00 slot.
C9_Witness ==
    /\ Fresh /\ availResp.status = 200
    /\ \E r \in reservations :
          /\ TimeOf(r.start_at) = HM(19, 0) /\ r.end_at = r.start_at + 60
          /\ DateOf(r.start_at) = availResp.req.date
          /\ \A x \in reservations : x.service_name = r.service_name => x = r
          /\ \E i \in 1 .. Len(availResp.services) :
                /\ availResp.services[i].name = r.service_name
                /\ [start_at |-> r.start_at + 30,
                    available_capacity |-> ServiceWindowOf(i).capacity - r.guests]
                      \in SlotsOf(i)
                /\ [start_at |-> r.start_at + 60,
                    available_capacity |-> ServiceWindowOf(i).capacity]
                      \in SlotsOf(i)

\* the slot grid of window w on date d: start_time + k * slot_interval,
\* k >= 0, up to and including last_reservation_time
Grid(w, d) ==
    { d * MinutesPerDay + w.start_time + k * w.slot_interval :
        k \in 0 .. ((w.last_reservation_time - w.start_time) \div w.slot_interval) }

\* C10: Slot boundary inclusion.  For a future date, the slots offered for a
\* window are exactly the grid points start_time + k * slot_interval <=
\* last_reservation_time whose remaining capacity admits the party: the grid
\* point equal to last_reservation_time is offered when capacity permits, and
\* no slot later than last_reservation_time is offered.
C10_SlotBoundary ==
    (Fresh /\ availResp.status = 200 /\ availResp.req.date > DateOf(now))
        => \A i \in 1 .. Len(availResp.services) :
              LET w == ServiceWindowOf(i)
                  d == availResp.req.date
                  fits(s) ==
                      w.capacity
                        - CapacityTaken(w, ExistingReservations(d), s, s + w.meal_duration)
                          >= availResp.req.guests
              IN  /\ { slot.start_at : slot \in SlotsOf(i) }
                        = { s \in Grid(w, d) : fits(s) }
                  /\ \A slot \in SlotsOf(i) :
                        slot.start_at <= d * MinutesPerDay + w.last_reservation_time
                  /\ fits(d * MinutesPerDay + w.last_reservation_time)
                        => \E slot \in SlotsOf(i) :
                              slot.start_at = d * MinutesPerDay + w.last_reservation_time

\* C10 witness: the answer for a future date offers the slot that starts at
\* last_reservation_time, and omitted an earlier grid point for lack of
\* capacity.
C10_Witness ==
    /\ Fresh /\ availResp.status = 200 /\ availResp.req.date > DateOf(now)
    /\ \E i \in 1 .. Len(availResp.services) :
          LET w == ServiceWindowOf(i)
              d == availResp.req.date
          IN  /\ \E slot \in SlotsOf(i) :
                    slot.start_at = d * MinutesPerDay + w.last_reservation_time
              /\ \E s \in Grid(w, d) : \A slot \in SlotsOf(i) : slot.start_at # s

\* the grid points of window w on date d that the handler considers: all of
\* them for a later date, those not before now + 1 hour for today
Candidates(w, d) ==
    { s \in Grid(w, d) :
        d = DateOf(now) => s >= now + AdvanceNoticeHours * 60 }

\* the seats left for a slot of window w that starts at s, given the
\* reservations the handler fetched for date d
SeatsLeft(w, d, s) ==
    w.capacity - CapacityTaken(w, ExistingReservations(d), s, s + w.meal_duration)

\* C11: Slot filter.  A candidate slot is in the answer if and only if its
\* available_capacity is at least the requested guests: every slot in the
\* answer has guests <= available_capacity <= capacity of its window, and a
\* candidate with fewer seats left does not appear at all.
C11_SlotFilter ==
    (Fresh /\ availResp.status = 200)
        => \A i \in 1 .. Len(availResp.services) :
              LET w == ServiceWindowOf(i)
                  d == availResp.req.date
              IN  /\ \A s \in Candidates(w, d) :
                        (\E slot \in SlotsOf(i) : slot.start_at = s)
                            <=> SeatsLeft(w, d, s) >= availResp.req.guests
                  /\ \A slot \in SlotsOf(i) :
                        /\ availResp.req.guests <= slot.available_capacity
                        /\ slot.available_capacity <= w.capacity
                        /\ slot.available_capacity = SeatsLeft(w, d, slot.start_at)

\* C11 witness: an answer holds a slot with exactly as many seats left as
\* guests were asked for, and leaves out a candidate with fewer.
C11_Witness ==
    /\ Fresh /\ availResp.status = 200
    /\ \E i \in 1 .. Len(availResp.services) :
          LET w == ServiceWindowOf(i)
              d == availResp.req.date
          IN  /\ \E slot \in SlotsOf(i) :
                    slot.available_capacity = availResp.req.guests
              /\ \E s \in Candidates(w, d) :
                    /\ SeatsLeft(w, d, s) < availResp.req.guests
                    /\ \A slot \in SlotsOf(i) : slot.start_at # s

\* C12: Today buffer.  In an answer for today's date no slot starts earlier
\* than now + 1 hour, every slot lies on its window's grid
\* start_time + k * slot_interval, and the grid points from now + 1 hour on
\* are all still offered when capacity permits: the first slot offered is the
\* next grid point, not a slot that starts at now + 1 hour itself.
C12_TodayBuffer ==
    (Fresh /\ availResp.status = 200 /\ availResp.req.date = DateOf(now))
        => \A i \in 1 .. Len(availResp.services) :
              LET w == ServiceWindowOf(i)
                  d == availResp.req.date
              IN  /\ \A slot \in SlotsOf(i) :
                        /\ slot.start_at >= now + 60
                        /\ slot.start_at \in Grid(w, d)
                  /\ \A s \in Grid(w, d) :
                        (s >= now + 60 /\ SeatsLeft(w, d, s) >= availResp.req.guests)
                            => \E slot \in SlotsOf(i) : slot.start_at = s

\* C12 witness: now + 1 hour falls strictly between two grid points of a
\* window; the answer for today leaves out the earlier one, which has seats,
\* and offers the later one.
C12_Witness ==
    /\ Fresh /\ availResp.status = 200 /\ availResp.req.date = DateOf(now)
    /\ \E i \in 1 .. Len(availResp.services) :
          LET w == ServiceWindowOf(i)
              d == availResp.req.date
          IN  \E s \in Grid(w, d) :
                 /\ s < now + 60 /\ now + 60 < s + w.slot_interval
                 /\ SeatsLeft(w, d, s) >= availResp.req.guests
                 /\ \A slot \in SlotsOf(i) : slot.start_at # s
                 /\ \E slot \in SlotsOf(i) : slot.start_at = s + w.slot_interval

Alphabet ==
    {"A", "B", "C", "D", "E", "F", "G", "H", "J", "K", "L", "M", "N", "P", "Q",
     "R", "S", "T", "U", "V", "W", "X", "Y", "Z", "2", "3", "4", "5", "6", "7",
     "8", "9"}

\* C14: Code uniqueness.  In every reachable state the codes of the stored
\* reservations are pairwise distinct, each is 6 characters long and each
\* character is one of ABCDEFGHJKLMNPQRSTUVWXYZ23456789, whatever the
\* interleaving of the commits and whatever their (date, service_name).
C14_CodeUniqueness ==
    /\ \A r1, r2 \in reservations : r1.code = r2.code => r1 = r2
    /\ \A r \in reservations :
          /\ Len(r.code) = 6
          /\ \A i \in 1 .. Len(r.code) : r.code[i] \in Alphabet

\* C14 witness: two sessions with different (date, service_name) held the
\* same freshly generated code at once; one stored its reservation under it
\* and the INSERT of the other failed on UNIQUE(code).
C14_Witness ==
    \E p, q \in Procs :
        /\ p # q
        /\ BookingKey(args[p]) # BookingKey(args[q])
        /\ v_code[p] = v_code[q]
        /\ \E r \in reservations : r.id = p /\ r.code = v_code[p]
        /\ result[q] = Raised("unique_violation")

\* the call of session p got past the window and time checks
PastWindowCheck(p) ==
    \/ pc[p] \in {"lock", "check", "gen", "insert"}
    \/ /\ pc[p] = "done"
       /\ result[p].error \notin {"Service non disponible ce jour",
                                  "Creneau non disponible"}

\* C20: Window check on commit.  For a call whose date is not closed:
\* without an active service_windows row for (service_name, weekday of
\* start_at) it returns ok = FALSE with 'Service non disponible ce jour';
\* with one, it returns ok = FALSE with 'Creneau non disponible' when the
\* time of day of start_at is before start_time or after
\* last_reservation_time, and goes on to the capacity check otherwise, in
\* particular when the time equals start_time or last_reservation_time.
C20_WindowCheck ==
    \A p \in Procs :
        (Called(p) /\ ~is_date_closed(DateOf(args[p].start_at)))
            => LET a == args[p]
                   rows == { w \in service_windows :
                               /\ w.name = a.service_name
                               /\ w.dow = DowOf(DateOf(a.start_at))
                               /\ w.is_active }
                   time == TimeOf(a.start_at)
               IN  /\ rows = {}
                        => /\ pc[p] = "done"
                           /\ result[p] = Row(FALSE, NoCode, 0,
                                              "Service non disponible ce jour")
                   /\ \A w \in rows :
                        /\ (time < w.start_time \/ time > w.last_reservation_time)
                              => /\ pc[p] = "done"
                                 /\ result[p] = Row(FALSE, NoCode, 0,
                                                    "Creneau non disponible")
                        /\ (w.start_time <= time /\ time <= w.last_reservation_time)
                              => PastWindowCheck(p)

\* C20 witness: a call whose time of day equals last_reservation_time was
\* accepted, and a call for a time before its window's start_time was
\* refused with 'Creneau non disponible'.
C20_Witness ==
    \E p, q \in Procs :
        /\ pc[p] = "done" /\ result[p].ok
        /\ TimeOf(args[p].start_at) = MatchedWindow(args[p]).last_reservation_time
        /\ pc[q] = "done" /\ result[q].error = "Creneau non disponible"
        /\ \E w \in ServiceWindowRows(args[q].service_name,
                                      DowOf(DateOf(args[q].start_at))) :
              TimeOf(args[q].start_at) < w.start_time

\* the reservation that request p committed is stored as confirmed
Stored(p) ==
    \E r \in reservations :
        /\ r.id = result[p].reservation_id /\ r.code = result[p].code
        /\ r.service_name = body[p].service_name
        /\ r.start_at = body[p].start_at.instant
        /\ r.guests = body[p].guests
        /\ r.status = "confirmed"

\* C15: Notification failure is isolated.  When book_reservation has
\* returned ok = TRUE and the confirmation email could not be sent (the mail
\* service answered with a response that is not ok, or the fetch failed), the
\* reservation is stored as confirmed and the handler answers 200 with
\* ok = TRUE and the code and reservation_id that book_reservation returned,
\* as it does when the email was delivered.
C15_NotificationFailureIsolated ==
    \A p \in Procs :
        (hpc[p] = "done" /\ mail[p] \in {"refused", "failed"})
            => /\ result[p].kind = "row" /\ result[p].ok
               /\ Stored(p)
               /\ response[p] = Reply(200, TRUE, result[p].code,
                                      result[p].reservation_id, "")

\* C15 witness: one request was answered after the mail service refused its
\* email, another after the fetch of its email failed.
C15_Witness ==
    \E p, q \in Procs :
        /\ hpc[p] = "done" /\ mail[p] = "refused" /\ response[p].ok
        /\ hpc[q] = "done" /\ mail[q] = "failed" /\ response[q].ok

\* C16 (as claimed): Notification does not block the response.  Once
\* book_reservation has returned ok = TRUE to the handler, the handler
\* eventually sends its success response, also when the mail service never
\* answers.
C16_ResponseNotBlocked ==
    \A p \in Procs :
        (hpc[p] = "rpc" /\ pc[p] = "done" /\ result[p].ok)
            ~> (hpc[p] = "done" /\ response[p].ok)

\* C17: Notification ordering.  A confirmation email has been attempted for
\* a request only if book_reservation returned ok = TRUE to it and its
\* reservation is stored; a request that was refused, by a check of the
\* handler, by book_reservation or after a database error, has had no email
\* attempted; and no request has an email attempted a second time.
C17_NotificationOrdering ==
    /\ [](\A p \in Procs :
            /\ mail[p] # "none"
                 => /\ pc[p] = "done" /\ result[p].kind = "row" /\ result[p].ok
                    /\ Stored(p)
            /\ (hpc[p] = "done" /\ ~response[p].ok) => mail[p] = "none")
    /\ [][ \A p \in Procs :
             (mail'[p] = "pending" /\ mail[p] # "pending") => mail[p] = "none" ]_vars

\* C17 witness: the email of a committed request is on its way, while a
\* request that carries an email address and was refused by
\* book_reservation has been answered without any.
C17_Witness ==
    \E p, q \in Procs :
        /\ mail[p] = "pending" /\ Stored(p)
        /\ hpc[q] = "done" /\ pc[q] = "done" /\ ~response[q].ok
        /\ body[q].email # NoText /\ mail[q] = "none"

\* the steps of the validation order as claimed, for a body b
\* (1) start_at parses, is not in the past and is within 30 days
StartAtFails(b) ==
    \/ ~b.start_at.valid
    \/ b.start_at.instant < now
    \/ b.start_at.instant > now + 30 * MinutesPerDay
StartAtReasons(b) ==
    {"Date invalide", "Impossible de reserver dans le passe",
     "Reservation limitee a 30 jours a l'avance"}
      \cup (IF b.start_at = NoStart THEN {"Champs requis manquants"} ELSE {})
\* (2) guests in [1, 20] and the contact fields
ContactFails(b) ==
    \/ b.guests < 1 \/ b.guests > 20
    \/ b.name = NoText
    \/ Len(PhoneClean(b.phone)) < 10
    \/ (b.email # NoText /\ ~EmailMatches(b.email))
ContactReasons ==
    {"Champs requis manquants", "Nombre de couverts invalide (1-20)",
     "Numero de telephone invalide", "Email invalide"}

\* C18 (as claimed): Validation order.  A request that has been answered
\* carries the reason of the earliest step that fails, in the order
\* (1) start_at, (2) guests and contact fields, (3) closure, (4) active
\* service window and time of day within it, (5) capacity.  (Requests whose
\* service_name is 'midi' or 'soir'; the claim has no step for other names.)
C18_ValidationOrder ==
    \A p \in Procs :
        (hpc[p] = "done" /\ body[p].json /\ body[p].service_name \in Services)
            => LET b == body[p]
                   e == response[p].error
                   date == DateOf(b.start_at.instant)
                   time == TimeOf(b.start_at.instant)
                   rows == ServiceWindowRows(b.service_name, DowOf(date))
               IN  IF StartAtFails(b) THEN e \in StartAtReasons(b)
                   ELSE IF ContactFails(b) THEN e \in ContactReasons
                   ELSE IF date \in closures THEN e = "Restaurant ferme cette date"
                   ELSE IF rows = {} THEN e = "Service non disponible ce jour"
                   ELSE IF \E w \in rows : time < w.start_time
                                             \/ time > w.last_reservation_time
                     THEN e = "Creneau non disponible"
                   ELSE e \in {"Capacite insuffisante pour ce creneau", "",
                               "Erreur lors de la reservation"}

\* the body of request p fails a check of the handler
Invalid(p) == ~body[p].json \/ ValidationError(body[p]) # ""

\* C19: Rejections have no side effects.  A request that was answered with
\* ok = FALSE has inserted no reservation and has had no email attempted,
\* and the step that answers it changes no table; a request whose body
\* fails a check of the handler never calls book_reservation.
C19_RejectionsNoSideEffects ==
    /\ [](\A p \in Procs :
            /\ (hpc[p] = "done" /\ ~response[p].ok)
                  => /\ \A r \in reservations : r.id # p
                     /\ mail[p] = "none"
            /\ (hpc[p] # "idle" /\ Invalid(p))
                  => /\ pc[p] = "idle" /\ result[p] = NoResult
                     /\ hpc[p] = "done" /\ ~response[p].ok)
    /\ [][ \A p \in Procs :
             (hpc[p] # "done" /\ hpc'[p] = "done" /\ ~response'[p].ok)
                => UNCHANGED <<service_windows, closures, reservations>> ]_vars

\* C19 witness: with one reservation stored, a second request for the same
\* slot was refused for lack of capacity and a reservation by it is not
\* stored.
C19_Witness ==
    \E p, q \in Procs :
        /\ Stored(p) /\ reservations = {NewRow(p)}
        /\ hpc[q] = "done"
        /\ response[q] = Refused(400, "Capacite insuffisante pour ce creneau")
        /\ body[q].start_at = body[p].start_at
        /\ body[q].service_name = body[p].service_name

\* the rows that session p inserted
RowsOf(p) == { r \in reservations : r.id = p }

\* C21: Effect of a successful commit.  A book_reservation call that has
\* returned ok = TRUE has inserted exactly one reservation: confirmed, with
\* the service_name, start_at and guests of the call and with
\* end_at = start_at + meal_duration of the active window of that service
\* and weekday; the code and reservation_id returned are those of the row.
\* The step that returns ok = TRUE adds that one row and no step removes or
\* changes a stored reservation.
C21_SuccessfulCommit ==
    /\ [](\A p \in Procs :
            (result[p].kind = "row" /\ result[p].ok)
               => \E r \in reservations :
                     /\ RowsOf(p) = {r}
                     /\ r.status = "confirmed"
                     /\ r.service_name = args[p].service_name
                     /\ r.start_at = args[p].start_at
                     /\ r.guests = args[p].guests
                     /\ \E w \in service_windows :
                           /\ w.name = r.service_name /\ w.is_active
                           /\ w.dow = DowOf(DateOf(r.start_at))
                           /\ r.end_at = r.start_at + w.meal_duration
                     /\ r.code = result[p].code
                     /\ r.id = result[p].reservation_id)
    /\ [][ /\ reservations \subseteq reservations'
           /\ \A p \in Procs :
                (~result[p].ok /\ result'[p].ok)
                   => /\ Cardinality(reservations') = Cardinality(reservations) + 1
                      /\ RowsOf(p) = {} ]_vars

\* C21 witness: a call returned ok = TRUE while a reservation of another
\* call was already stored, so two rows are stored.
C21_Witness ==
    \E p, q \in Procs :
        /\ p # q /\ result[p].ok /\ result[q].ok
        /\ Cardinality(reservations) = 2
        /\ args[p].start_at # args[q].start_at

\* the slots of entry i of a response, as a set
SlotSet(resp, i) ==
    { resp.services[i].slots[j] : j \in 1 .. Len(resp.services[i].slots) }

\* C29: Availability never grows through commits.  The stored response was
\* given for (date, guests) at the current time; whatever commit attempts
\* have run since, a slot that the handler offers now for the same request
\* was offered in the stored response with at least the same
\* available_capacity: no capacity grows and an omitted slot does not come
\* back.
C29_AvailabilityNeverGrows ==
    (availResp.status = 200 /\ availResp.message = "")
       => LET cur == AvailabilityResponse(availResp.req.date, availResp.req.guests)
          IN  /\ cur.status = 200 /\ Len(cur.services) = Len(availResp.services)
              /\ \A i \in 1 .. Len(cur.services) :
                    \A n \in SlotSet(cur, i) :
                       \E o \in SlotSet(availResp, i) :
                          /\ o.start_at = n.start_at
                          /\ n.available_capacity <= o.available_capacity

\* C29 witness: since the stored response a commit has taken seats: one
\* slot it offered is offered with fewer seats now and another is no longer
\* offered.
C29_Witness ==
    /\ availResp.status = 200 /\ availResp.message = ""
    /\ readRows # reservations
    /\ LET cur == AvailabilityResponse(availResp.req.date, availResp.req.guests)
       IN  \E i \in 1 .. Len(cur.services) :
              /\ \E o \in SlotSet(availResp, i) :
                    \A n \in SlotSet(cur, i) : n.start_at # o.start_at
              /\ \E o \in SlotSet(availResp, i) :
                    \E n \in SlotSet(cur, i) :
                       /\ n.start_at = o.start_at
                       /\ n.available_capacity < o.available_capacity

\* C30: Availability terminates.  The response of the handler is a finite
\* list per service: for a window with slot_interval >= 1 it has at most
\* floor((last_reservation_time - start_time) / slot_interval) + 1 slots, in
\* strictly increasing order of start_at.
C30_SlotLoopBounded ==
    (Fresh /\ availResp.status = 200)
       => \A i \in 1 .. Len(availResp.services) :
             LET w == ServiceWindowOf(i)
                 slots == availResp.services[i].slots
             IN  w.slot_interval >= 1
                    => /\ Len(slots) <=
                            ((w.last_reservation_time - w.start_time)
                                \div w.slot_interval) + 1
                       /\ \A j \in 1 .. Len(slots) - 1 :
                             slots[j].start_at < slots[j + 1].start_at

\* C30 witness: a response in which one service has as many slots as the
\* bound allows, more than one, and another service has fewer than its
\* bound.
C30_Witness ==
    /\ Fresh /\ availResp.status = 200
    /\ \E i, k \in 1 .. Len(availResp.services) :
          LET w == ServiceWindowOf(i)
              v == ServiceWindowOf(k)
          IN  /\ Len(availResp.services[i].slots) =
                    ((w.last_reservation_time - w.start_time) \div w.slot_interval) + 1
              /\ Len(availResp.services[i].slots) > 1
              /\ Len(availResp.services[k].slots) <
                    ((v.last_reservation_time - v.start_time) \div v.slot_interval) + 1

\* the commit path accepts a call with arguments a in the current state:
\* the handler's horizon (not in the past, at most HorizonDays ahead), then
\* the closure, window, time and capacity checks of book_reservation
CommitAccepts(a) ==
    /\ ~(a.start_at < now)
    /\ ~(a.start_at > now + HorizonDays * MinutesPerDay)
    /\ Bookable(a)
    /\ ~InsufficientCapacity(
           get_capacity_taken(a.service_name, a.start_at,
                              EndAt(a.start_at, MatchedWindow(a))),
           a.guests, MatchedWindow(a).capacity)

\* C25: Read/commit agreement.  Every slot of the response the handler gives
\* in the current state is accepted by the commit path when it is submitted
\* in that state with the same service, start_at and guests.
C25_ReadCommitAgreement ==
    (Fresh /\ availResp.status = 200)
       => \A i \in 1 .. Len(availResp.services) :
             \A slot \in SlotsOf(i) :
                CommitAccepts([service_name |-> availResp.services[i].name,
                               start_at |-> slot.start_at,
                               guests |-> availResp.req.guests])

\* the call of session p has passed the capacity check
PassedCapacityCheck(p) ==
    \/ pc[p] \in {"gen", "insert"}
    \/ pc[p] = "done" /\ (result[p].kind = "error" \/ result[p].ok)

\* C26: A commit that passes the capacity check always succeeds.  A call
\* that has found v_taken + p_guests <= capacity and has returned has
\* returned ok = TRUE.
C26_PassedCheckSucceeds ==
    \A p \in Procs : (PassedCapacityCheck(p) /\ pc[p] = "done") => result[p].ok

\* the required fields of body b are present, its service name is known and
\* its guests are in range: the checks the handler makes before it looks at
\* start_at
FieldsInOrder(b) ==
    /\ b.json /\ b.start_at.given
    /\ b.service_name \in Services
    /\ b.guests >= 1 /\ b.guests <= 20
    /\ b.name # NoText /\ b.phone # NoText

\* the two reasons of the booking horizon
PastReason == "Impossible de reserver dans le passe"
HorizonReason == "Reservation limitee a 30 jours a l'avance"

\* C24: Booking horizon.  A request whose start_at parses and is earlier
\* than now, or more than 30 days after now, is refused with ok = FALSE and
\* book_reservation is not called for it; when its other fields are in
\* order the reason is 'Impossible de reserver dans le passe' for the first
\* and 'Reservation limitee a 30 jours a l'avance' for the second.  No
\* request with now <= start_at <= now + 30 days gets either reason.
C24_BookingHorizon ==
    \A p \in Procs :
        (hpc[p] # "idle" /\ body[p].json /\ body[p].start_at.valid)
           => LET b == body[p]
                  t == b.start_at.instant
                  early == t < now
                  late == t > now + 30 * MinutesPerDay
              IN  /\ (early \/ late)
                        => /\ hpc[p] = "done" /\ ~response[p].ok
                           /\ response[p].status = 400
                           /\ pc[p] = "idle" /\ result[p] = NoResult
                           /\ RowsOf(p) = {}
                  /\ (early /\ FieldsInOrder(b)) => response[p].error = PastReason
                  /\ (late /\ FieldsInOrder(b)) => response[p].error = HorizonReason
                  /\ response[p].error \in {PastReason, HorizonReason}
                       => (early \/ late)

\* C24 witness: one request was refused as in the past and another as beyond
\* the horizon, and neither reached book_reservation.
C24_Witness ==
    \E p, q \in Procs :
        /\ hpc[p] = "done" /\ response[p].error = PastReason
        /\ body[p].start_at.instant < now /\ pc[p] = "idle"
        /\ hpc[q] = "done" /\ response[q].error = HorizonReason
        /\ body[q].start_at.instant > now + 30 * MinutesPerDay /\ pc[q] = "idle"

\* a request with start_at exactly 30 days after now went on to
\* book_reservation
C24_BoundaryReached ==
    \E p \in Procs :
        /\ body[p].json /\ body[p].start_at.valid
        /\ body[p].start_at.instant = now + 30 * MinutesPerDay
        /\ pc[p] = "done"

\* C27: Commit liveness.  Under the scheduling of the database every call
\* of book_reservation that has started returns a result, an error
\* included, and holds no advisory lock afterwards: no call waits for a lock
\* for ever and the code loop exits while an unused code exists.
C27_CommitLiveness ==
    \A p \in Procs :
        (pc[p] \in {"lock", "check", "gen", "insert"})
           ~> (pc[p] = "done" /\ held[p] = NoLock /\ result[p].kind # "none")

\* C27 witness: a call waits for the lock that another call holds while it
\* generates its code.
C27_Witness ==
    \E p, q \in Procs :
        /\ p # q /\ Waiting(p)
        /\ pc[q] \in {"gen", "insert"} /\ held[q] = LockKey(args[p])

\* a call is in the code loop after a draw that collided with a stored code
C27_RetryReached ==
    \E p \in Procs :
        /\ pc[p] = "gen" /\ v_code[p] # NoCode
        /\ \E r \in reservations : r.code = v_code[p]

\* the start of row r is on the slot grid of its window
OnGrid(r) ==
    \E k \in 0 .. (MinutesPerDay \div RowWindow(r).slot_interval) :
        /\ TimeOf(r.start_at) = RowWindow(r).start_time + k * RowWindow(r).slot_interval
        /\ TimeOf(r.start_at) <= RowWindow(r).last_reservation_time

\* C28 as stated: Bookings lie on the slot grid.  Every stored reservation
\* starts at start_time + k * slot_interval of its window for some k >= 0,
\* not after last_reservation_time.
C28_BookingsOnGrid == \A r \in reservations : OnGrid(r)

\* C28 as amended: Bookings lie in the window.  Every stored reservation
\* starts at a time of day from start_time to last_reservation_time of the
\* active window of its service and weekday, both bounds included.
C28_BookingsInWindow ==
    \A r \in reservations :
        \E w \in service_windows :
            /\ w.name = r.service_name /\ w.is_active
            /\ w.dow = DowOf(DateOf(r.start_at))
            /\ TimeOf(r.start_at) >= w.start_time
            /\ TimeOf(r.start_at) <= w.last_reservation_time

\* C28 witness: a reservation that starts between two slots of its window is
\* stored.
C28_Witness ==
    \E r \in reservations :
        /\ ~OnGrid(r)
        /\ TimeOf(r.start_at) > RowWindow(r).start_time
        /\ TimeOf(r.start_at) < RowWindow(r).last_reservation_time

C22_ThrownFaultsReached ==
    /\ availResp.status = 500
    /\ failedReads \cap {"service_windows", "reservations"} # {}

\* C23: Storage faults on commit.  For a request whose RPC returned an
\* error (store out of reach, lock wait given up, constraint violated): no
\* reservation of the request is stored, no email is sent for it, and the
\* handler, once it has answered, has answered 500 with ok = FALSE and the
\* fixed message 'Erreur lors de la reservation', which is not the error of
\* the database.
C23_CommitFaultsAreGeneric ==
    \A p \in Procs :
        result[p].kind = "error"
           => /\ RowsOf(p) = {}
              /\ mail[p] = "none"
              /\ hpc[p] \in {"rpc", "done"}
              /\ hpc[p] = "done"
                   => /\ response[p] =
                           [status |-> 500, ok |-> FALSE, code |-> NoCode,
                            reservation_id |-> 0,
                            error |-> "Erreur lors de la reservation"]
                      /\ response[p].error # result[p].error

\* C23 witness: a request whose lock wait was given up has been answered
\* with the generic error while the request that held the lock is stored.
C23_Witness ==
    \E p, q \in Procs :
        /\ p # q
        /\ hpc[p] = "done" /\ result[p].error = "lock_not_available"
        /\ response[p].status = 500
        /\ result[q].ok /\ RowsOf(q) # {}

\* a request that met an unreachable store has been answered
C23_UnreachableReached ==
    \E p \in Procs :
        /\ hpc[p] = "done" /\ result[p].error = "store_unreachable"
        /\ response[p].status = 500

\* a request whose INSERT met a duplicate code has been answered
C23_ConstraintReached ==
    \E p \in Procs :
        /\ hpc[p] = "done" /\ result[p].error = "unique_violation"
        /\ response[p].status = 500

\* a closed date was answered with a slot list after the closure lookup
\* failed
C22_ClosedDateOffered ==
    /\ failedReads = {"closures"} /\ availResp.req.date \in closures
    /\ availResp.status = 200 /\ Len(availResp.services) > 0

\* C31: Single animation loop.  At most one animation frame callback of
\* animate is pending at any time, and the particles are drawn at most once
\* in a frame, also when the component was mounted while the document was
\* hidden.
C31_SingleAnimationLoop ==
    /\ Cardinality(callbacks) <= 1
    /\ advances <= 1

\* C32: Cleanup stops the animation for good.  Once the function returned
\* by mountParticles has been called, no listener is attached, and no frame
\* callback, resize event or visibilitychange event draws a frame or
\* requests an animation frame.
C32_CleanupStops ==
    /\ [](mount = "cleaned" => listeners = {})
    /\ [][ mount = "cleaned"
             => /\ mount' = "cleaned"
                /\ drawn' = drawn
                /\ handle' = handle
                /\ callbacks' \subseteq callbacks
                /\ canvasWidth' = canvasWidth ]_vars

\* C32 witness: after the cleanup of an animation that had drawn, a callback
\* that was still pending has run, the element has been resized and the
\* document has changed its visibility.
C32_Witness ==
    /\ mount = "cleaned" /\ drawn >= 1
    /\ afterCleanup = {"callback", "resize", "visibilitychange"}

=============================================================================
